---- MODULE Spec2Model ----
(***************************************************************************)
(* Model of scripts/sync_template_tracker.py: main() fans out one          *)
(* get_provider_templates thread per provider, joins them, and reconciles  *)
(* the observed template -> providers mapping with the remote tracker in   *)
(* three passes (add, prune associations, prune templates).                *)
(*                                                                         *)
(* Names (template names, provider keys, association ids) are sequences of *)
(* one-character strings, so that str(), lower(), endswith() and the       *)
(* '{}_{}'.format(...) id are computed, not assumed.                       *)
(*                                                                         *)
(* Two further modules of the repository are modelled beside it:           *)
(* utils/log.py (the Perflog event timer) and markers/uses.py (the uses_*  *)
(* fixtures and the pytest_itemcollected hook).                            *)
(***************************************************************************)
EXTENDS Bags, FiniteSets, Integers, Sequences, TLC

VARIABLES
    cfme_type,              \* cfme_data.management_systems[key]['type']
    selected_provider,      \* the --provider-key argument (None or a list)
    all_providers,          \* main: all_providers
    to_start,               \* main: providers the start loop has not visited yet
    thread_q,               \* main: thread_q (started collector threads)
    pc,                     \* main: position in main()
    tpc,                    \* per collector thread: position in get_provider_templates
    thread_lock,            \* holder of thread_lock, or None
    templates,              \* per collector thread: local 'templates' and the call it came from
    template_providers,     \* shared defaultdict(list): template -> provider keys
    unresponsive_providers, \* shared set
    existing_provider_templates, \* main: ids fetched before the add pass
    add_todo,               \* main: items of template_providers the add loop has not visited
    prune_todo,             \* main: associations of the prune listing not visited yet
    tprune_todo,            \* main: template records of the last listing not visited yet
    tracker,                \* the remote tracker: associations, template and group records
    env,                    \* what the providers answered in this run (replayed by a re-run)
    run,                    \* number of the current run of main()
    hist,                   \* per-run record of the tracker calls main() issued
    tracking_events,        \* Perflog.tracking_events: event name -> start time
    clock,                  \* the last value time() returned
    returned,               \* the last Perflog call: what it was, returned and logged
    last_start,             \* per event name: the time of the last start() call
    USES_FIXTURENAMES,      \* markers.uses: USES_FIXTURENAMES
    fixtures,               \* markers.uses: the fixtures pytest.fixture() has created
    loaded,                 \* markers.uses: decorated functions of the module executed so far
    item                    \* the test item last handed to pytest_itemcollected

vars == <<cfme_type, selected_provider, all_providers, to_start, thread_q, pc, tpc,
          thread_lock, templates, template_providers, unresponsive_providers,
          existing_provider_templates, add_todo, prune_todo, tprune_todo, tracker,
          env, run, hist, tracking_events, clock, returned, last_start,
          USES_FIXTURENAMES, fixtures, loaded, item>>

\* the state of scripts/sync_template_tracker.py
syncVars == <<cfme_type, selected_provider, all_providers, to_start, thread_q, pc, tpc,
              thread_lock, templates, template_providers, unresponsive_providers,
              existing_provider_templates, add_todo, prune_todo, tprune_todo, tracker,
              env, run, hist>>

\* the state of utils/log.py and of markers/uses.py
perflogVars == <<tracking_events, clock, returned, last_start>>
markerVars == <<USES_FIXTURENAMES, fixtures, loaded, item>>

(***************************************************************************)
(* Bounds of the model.                                                    *)
(***************************************************************************)
MaxList == 2    \* longest listing a provider returns
MaxFail == 1    \* most tracker calls that fail in one run
MaxRuns == 2    \* runs of main() in a row

\* Python's None (no --provider-key argument, a lock nobody holds): the empty sequence,
\* which is no provider key and no non-empty list of keys
None == <<>>

(***************************************************************************)
(* Names.                                                                  *)
(***************************************************************************)
ProvA == <<"A">>
ProvB == <<"B">>
Providers == {ProvA, ProvB}

TplT1     == <<"t", "1">>
TplT2     == <<"t", "2">>
TplDb     == <<"t", "D", "B">>
TplSprout == <<"s", "1">>
TplNonAsc == <<"t", "U+00E9">>
TplNoDate == <<"x", "1">>

\* the template names each provider can hand out in a listing
Hosted(p) == IF p = ProvA THEN {TplT1, TplDb, TplNonAsc}
                          ELSE {TplT1, TplSprout, TplNoDate}

\* the associations the tracker may hold before the first run
TrackedPairs ==
    { [template |-> TplT1, provider |-> ProvA], [template |-> TplT1, provider |-> ProvB],
      [template |-> TplT2, provider |-> ProvB], [template |-> TplSprout, provider |-> ProvA],
      [template |-> TplDb, provider |-> ProvA] }

\* the associations the tracker may hold before the first of several runs
RerunPairs ==
    { [template |-> TplT1, provider |-> ProvA], [template |-> TplT2, provider |-> ProvB] }

\* the runs checked: the --provider-key selection and the type of provider B
Configs == { [selected |-> None,      typeB |-> "ec2"],
             [selected |-> <<ProvA>>, typeB |-> "ec2"],
             [selected |-> <<ProvB>>, typeB |-> "gce"] }

Range(s) == { s[i] : i \in DOMAIN s }
SeqsUpTo(S, n) == UNION { [1..k -> S] : k \in 0..n }

(***************************************************************************)
(* Python helpers used by the script.                                      *)
(***************************************************************************)
AsciiChars == {"A", "B", "D", "t", "s", "x", "d", "b", "1", "2", "_"}

\* str(template): a unicode name with a non-ASCII character raises UnicodeEncodeError
StrRaises(name) == \E i \in DOMAIN name : name[i] \notin AsciiChars

LowerChar(c) == IF c = "A" THEN "a" ELSE IF c = "B" THEN "b" ELSE IF c = "D" THEN "d" ELSE c
Lower(name) == [i \in DOMAIN name |-> LowerChar(name[i])]

EndsWith(name, suffix) ==
    /\ Len(name) >= Len(suffix)
    /\ SubSeq(name, Len(name) - Len(suffix) + 1, Len(name)) = suffix

\* the suffix test without lower()
IsDbVariantCaseSensitive(name) == EndsWith(name, <<"d", "b">>)

\* str(template).lower().endswith('db')
IsDbVariant(name) == EndsWith(Lower(name), <<"d", "b">>)

\* '{}_{}'.format(template_name, provider_key)
FormatId(template_name, provider_key) == template_name \o <<"_">> \o provider_key

\* TemplateName.parse_template(name).group_name
GroupName(name) ==
    IF name[1] = "s" THEN "sprout"
    ELSE IF name[1] = "r" THEN "rhevm-internal"
    ELSE IF name[1] = "t" THEN "downstream"
    ELSE "unknown"

ExcludedGroups == {"sprout", "rhevm-internal"}

\* trackerbot.Template(name, group, datestamp) raises ValueError
TemplateRaises(name) == GroupName(name) = "unknown"

\* cfme_data.management_systems[key].get('ipaddress') is set
HasIpAddress(p) == p = ProvA

\* defaultdict(list).__getitem__: a missing key is inserted with an empty list
DefaultGet(d, k) == IF k \in DOMAIN d THEN d ELSE [x \in DOMAIN d \cup {k} |-> IF x = k THEN <<>> ELSE d[x]]

\* template_providers[template].append(provider_key)
Append1(d, k, p) == [DefaultGet(d, k) EXCEPT ![k] = Append(@, p)]

(***************************************************************************)
(* The environment: what a provider answers.  An answer is chosen when the *)
(* call is made and kept in env, so that a re-run of main() against        *)
(* unchanged providers gets the same answers.                              *)
(***************************************************************************)
Unasked == [ping |-> "?", mgmt |-> "?", listing |-> "?", items |-> <<>>]

PingAnswers(p) == IF env[p].ping = "?" THEN {"up", "down"} ELSE {env[p].ping}
MgmtAnswers(p) == IF env[p].mgmt = "?" THEN {"ok", "raise"} ELSE {env[p].mgmt}
ListingAnswers(p) ==
    IF env[p].listing = "?"
    THEN {[listing |-> "raise", items |-> <<>>]}
         \cup {[listing |-> "ok", items |-> l] : l \in SeqsUpTo(Hosted(p), MaxList)}
    ELSE {[listing |-> env[p].listing, items |-> env[p].items]}

(***************************************************************************)
(* get_provider_templates, lines 125-151.                                  *)
(***************************************************************************)
\* lines 130-140: which listing call the value of 'templates' comes from
ListingSource(type) ==
    LET first == IF type = "ec2" THEN "get_all_images" ELSE "none"
    IN  IF type = "gce" THEN "get_private_images" ELSE "list_template"

\* lines 143-147: the loop over templates[i..]; stops at the first str() that raises
RECURSIVE RecordLoop(_, _, _, _)
RecordLoop(ts, i, p, d) ==
    IF i > Len(ts) THEN [mapping |-> d, raised |-> FALSE]
    ELSE IF StrRaises(ts[i]) THEN [mapping |-> d, raised |-> TRUE]
    ELSE IF IsDbVariant(ts[i]) THEN RecordLoop(ts, i + 1, p, d)
    ELSE RecordLoop(ts, i + 1, p, Append1(d, ts[i], p))

CollectorVarsUnchanged ==
    UNCHANGED <<cfme_type, selected_provider, all_providers, to_start, thread_q, pc,
                existing_provider_templates, add_todo, prune_todo, tprune_todo,
                tracker, run, hist, perflogVars, markerVars>>

\* line 128: with thread_lock (enter)
AcquireForMgmt(p) ==
    /\ tpc[p] = "lock_mgmt"
    /\ thread_lock = None
    /\ thread_lock' = p
    /\ tpc' = [tpc EXCEPT ![p] = "get_mgmt"]
    /\ UNCHANGED <<templates, template_providers, unresponsive_providers, env>>
    /\ CollectorVarsUnchanged

\* line 129: get_mgmt(provider_key) returns or raises; the with-block releases the lock
GetMgmt(p) ==
    /\ tpc[p] = "get_mgmt"
    /\ \E a \in MgmtAnswers(p) :
        /\ env' = [env EXCEPT ![p].mgmt = a]
        /\ tpc' = [tpc EXCEPT ![p] = IF a = "ok" THEN "listing" ELSE "except"]
    /\ thread_lock' = None
    /\ UNCHANGED <<templates, template_providers, unresponsive_providers>>
    /\ CollectorVarsUnchanged

\* lines 130-141: the listing call(s), made without the lock
ListTemplates(p) ==
    /\ tpc[p] = "listing"
    /\ \E a \in ListingAnswers(p) :
        /\ env' = [env EXCEPT ![p].listing = a.listing, ![p].items = a.items]
        /\ IF a.listing = "ok"
           THEN /\ templates' = [templates EXCEPT
                        ![p] = [src |-> ListingSource(cfme_type[p]), items |-> a.items]]
                /\ tpc' = [tpc EXCEPT ![p] = "lock_record"]
           ELSE /\ tpc' = [tpc EXCEPT ![p] = "except"]
                /\ UNCHANGED templates
    /\ UNCHANGED <<thread_lock, template_providers, unresponsive_providers>>
    /\ CollectorVarsUnchanged

\* AcquireForRecord that does not wait for the lock to be free
AcquireForRecordNoWait(p) ==
    /\ tpc[p] = "lock_record"
    /\ thread_lock' = p
    /\ tpc' = [tpc EXCEPT ![p] = "record"]
    /\ UNCHANGED <<templates, template_providers, unresponsive_providers, env>>
    /\ CollectorVarsUnchanged

\* line 142: with thread_lock (enter)
AcquireForRecord(p) ==
    /\ tpc[p] = "lock_record"
    /\ thread_lock = None
    /\ thread_lock' = p
    /\ tpc' = [tpc EXCEPT ![p] = "record"]
    /\ UNCHANGED <<templates, template_providers, unresponsive_providers, env>>
    /\ CollectorVarsUnchanged

\* RecordTemplates whose with-block keeps the lock when the loop raises
RecordTemplatesKeepLock(p) ==
    /\ tpc[p] = "record"
    /\ LET r == RecordLoop(templates[p].items, 1, p, template_providers)
       IN  /\ template_providers' = r.mapping
           /\ tpc' = [tpc EXCEPT ![p] = IF r.raised THEN "except" ELSE "done"]
           /\ thread_lock' = IF r.raised THEN p ELSE None
    /\ UNCHANGED <<templates, unresponsive_providers, env>>
    /\ CollectorVarsUnchanged

\* lines 143-147: record the templates, release the lock
RecordTemplates(p) ==
    /\ tpc[p] = "record"
    /\ LET r == RecordLoop(templates[p].items, 1, p, template_providers)
       IN  /\ template_providers' = r.mapping
           /\ tpc' = [tpc EXCEPT ![p] = IF r.raised THEN "except" ELSE "done"]
    /\ thread_lock' = None
    /\ UNCHANGED <<templates, unresponsive_providers, env>>
    /\ CollectorVarsUnchanged

\* lines 148-150: except Exception; with thread_lock (enter)
AcquireForUnresponsive(p) ==
    /\ tpc[p] = "except"
    /\ thread_lock = None
    /\ thread_lock' = p
    /\ tpc' = [tpc EXCEPT ![p] = "mark_unresponsive"]
    /\ UNCHANGED <<templates, template_providers, unresponsive_providers, env>>
    /\ CollectorVarsUnchanged

\* MarkUnresponsive without the add
MarkUnresponsiveLost(p) ==
    /\ tpc[p] = "mark_unresponsive"
    /\ thread_lock' = None
    /\ tpc' = [tpc EXCEPT ![p] = "done"]
    /\ UNCHANGED <<templates, template_providers, unresponsive_providers, env>>
    /\ CollectorVarsUnchanged

\* line 151: unresponsive_providers.add(provider_key), release the lock
MarkUnresponsive(p) ==
    /\ tpc[p] = "mark_unresponsive"
    /\ unresponsive_providers' = unresponsive_providers \cup {p}
    /\ thread_lock' = None
    /\ tpc' = [tpc EXCEPT ![p] = "done"]
    /\ UNCHANGED <<templates, template_providers, env>>
    /\ CollectorVarsUnchanged

(***************************************************************************)
(* The remote tracker (cfme.utils.trackerbot and the service behind it):   *)
(* provider/template associations keyed by '{template}_{provider}',        *)
(* template records and group records.                                     *)
(***************************************************************************)
Pair(t, p) == [template |-> t, provider |-> p]

\* trackerbot.mark_provider_template: creates the group and template records if absent,
\* and the association
MarkProviderTemplate(tr, t, p) ==
    [pts       |-> tr.pts \cup {Pair(t, p)},
     templates |-> tr.templates \cup {t},
     groups    |-> tr.groups \cup {GroupName(t)}]

\* trackerbot.delete_provider_template: removes the association
DeleteProviderTemplate(tr, t, p) == [tr EXCEPT !.pts = @ \ {Pair(t, p)}]

\* api.template(name).delete()
DeleteTemplate(tr, t) == [tr EXCEPT !.templates = @ \ {t}]

\* the 'providers' field of a template record in api.template.get()
ProvidersOf(tr, t) == { pt.provider : pt \in { x \in tr.pts : x.template = t } }

TrackerOf(pts) ==
    [pts       |-> pts,
     templates |-> { pt.template : pt \in pts },
     groups    |-> { GroupName(pt.template) : pt \in pts }]

(***************************************************************************)
(* main(), lines 18-107.                                                   *)
(***************************************************************************)
\* lines 24-26
AllProviders(selected) == IF selected = None THEN Providers ELSE Range(selected)

NoCalls == [marks |-> EmptyBag, deletes |-> {}, tdeletes |-> {}, failed |-> 0]

\* per-run history: the tracker calls of this run, the associations the tracker held when
\* the run began, and whether an earlier run had a failing tracker call
NewHist(pts, failed_before) ==
    [calls |-> NoCalls, start_pts |-> pts, failed_before |-> failed_before]

MainVarsUnchanged ==
    UNCHANGED <<cfme_type, selected_provider, all_providers, thread_lock, templates,
                unresponsive_providers, run, perflogVars, markerVars>>

\* lines 29-36: one iteration of the start loop
StartCollector(p) ==
    /\ pc = "start"
    /\ p \in to_start
    /\ to_start' = to_start \ {p}
    /\ \E a \in (IF HasIpAddress(p) THEN PingAnswers(p) ELSE {"?"}) :
        /\ env' = [env EXCEPT ![p].ping = a]
        /\ IF a = "down"
           THEN UNCHANGED <<thread_q, tpc>>
           ELSE /\ thread_q' = thread_q \cup {p}
                /\ tpc' = [tpc EXCEPT ![p] = "lock_mgmt"]
    /\ pc' = IF to_start' = {} THEN "join" ELSE "start"
    /\ UNCHANGED <<template_providers, existing_provider_templates, add_todo, prune_todo,
                   tprune_todo, tracker, hist>>
    /\ MainVarsUnchanged

\* JoinCollectors that does not wait for the threads
JoinCollectorsNoWait ==
    /\ pc = "join"
    /\ pc' = "fetch_existing"
    /\ UNCHANGED <<to_start, thread_q, tpc, template_providers, existing_provider_templates,
                   add_todo, prune_todo, tprune_todo, tracker, env, hist>>
    /\ MainVarsUnchanged

\* lines 39-40: every thread.join() has returned
JoinCollectors ==
    /\ pc = "join"
    /\ \A p \in thread_q : tpc[p] = "done"
    /\ pc' = "fetch_existing"
    /\ UNCHANGED <<to_start, thread_q, tpc, template_providers, existing_provider_templates,
                   add_todo, prune_todo, tprune_todo, tracker, env, hist>>
    /\ MainVarsUnchanged

\* lines 49-52: the ids of the associations the tracker holds
FetchExisting ==
    /\ pc = "fetch_existing"
    /\ existing_provider_templates' = { FormatId(pt.template, pt.provider) : pt \in tracker.pts }
    /\ add_todo' = DOMAIN template_providers
    /\ pc' = IF add_todo' = {} THEN "fetch_associations" ELSE "add"
    /\ UNCHANGED <<to_start, thread_q, tpc, template_providers, prune_todo, tprune_todo,
                   tracker, env, hist>>
    /\ MainVarsUnchanged

\* AddProviders without the test of existing_provider_templates
RECURSIVE AddProvidersNoSkip(_, _, _, _, _, _)
AddProvidersNoSkip(t, providers, i, fails, tr, calls) ==
    IF i > Len(providers) THEN [tracker |-> tr, calls |-> calls]
    ELSE LET called == [calls EXCEPT !.marks = @ (+) SetToBag({Pair(t, providers[i])})]
         IN  IF i \in fails
             THEN AddProvidersNoSkip(t, providers, i + 1, fails, tr,
                                     [called EXCEPT !.failed = @ + 1])
             ELSE AddProvidersNoSkip(t, providers, i + 1, fails,
                                     MarkProviderTemplate(tr, t, providers[i]), called)

\* AddProviders with a loop that ends at the first call that raises
RECURSIVE AddProvidersStopAtFailure(_, _, _, _, _, _)
AddProvidersStopAtFailure(t, providers, i, fails, tr, calls) ==
    IF i > Len(providers) THEN [tracker |-> tr, calls |-> calls]
    ELSE IF FormatId(t, providers[i]) \in existing_provider_templates
         THEN AddProvidersStopAtFailure(t, providers, i + 1, fails, tr, calls)
    ELSE LET called == [calls EXCEPT !.marks = @ (+) SetToBag({Pair(t, providers[i])})]
         IN  IF i \in fails
             THEN [tracker |-> tr, calls |-> [called EXCEPT !.failed = @ + 1]]
             ELSE AddProvidersStopAtFailure(t, providers, i + 1, fails,
                                            MarkProviderTemplate(tr, t, providers[i]), called)

\* lines 73-89: the loop over providers[i..] of one template; 'fails' are the positions
\* whose mark_provider_template call raises SlumberHttpBaseException
RECURSIVE AddProviders(_, _, _, _, _, _)
AddProviders(t, providers, i, fails, tr, calls) ==
    IF i > Len(providers) THEN [tracker |-> tr, calls |-> calls]
    ELSE IF FormatId(t, providers[i]) \in existing_provider_templates
         THEN AddProviders(t, providers, i + 1, fails, tr, calls)
    ELSE LET called == [calls EXCEPT !.marks = @ (+) SetToBag({Pair(t, providers[i])})]
         IN  IF i \in fails
             THEN AddProviders(t, providers, i + 1, fails, tr,
                               [called EXCEPT !.failed = @ + 1])
             ELSE AddProviders(t, providers, i + 1, fails,
                               MarkProviderTemplate(tr, t, providers[i]), called)

\* SkippedInAdd without the test of the group name
SkippedInAddNoGroupTest(t) == TemplateRaises(t)

\* SkippedInAdd without the except clause of lines 68-71
SkippedInAddNoRaiseTest(t) == GroupName(t) \in ExcludedGroups

\* lines 60-62 and 66-71: the template is skipped before the loop over its providers
SkippedInAdd(t) == GroupName(t) \in ExcludedGroups \/ TemplateRaises(t)

\* positions of 'providers' at which the add loop calls mark_provider_template
CallPositions(t, providers) ==
    { i \in DOMAIN providers : FormatId(t, providers[i]) \notin existing_provider_templates }

\* lines 55-89: one iteration of the add loop
AddTemplate(t) ==
    /\ pc = "add"
    /\ t \in add_todo
    /\ add_todo' = add_todo \ {t}
    /\ IF SkippedInAdd(t)
       THEN UNCHANGED <<tracker, hist>>
       ELSE \E fails \in SUBSET CallPositions(t, template_providers[t]) :
               /\ hist.calls.failed + Cardinality(fails) <= MaxFail
               /\ LET r == AddProviders(t, template_providers[t], 1, fails, tracker, hist.calls)
                  IN  /\ tracker' = r.tracker
                      /\ hist' = [hist EXCEPT !.calls = r.calls]
    /\ pc' = IF add_todo' = {} THEN "fetch_associations" ELSE "add"
    /\ UNCHANGED <<to_start, thread_q, tpc, template_providers, existing_provider_templates,
                   prune_todo, tprune_todo, env>>
    /\ MainVarsUnchanged

\* trackerbot.depaginate(...)['objects'] is a list: the tracker returns its records in one
\* fixed order, and the loops below visit them in that order
FirstOf(S) == CHOOSE x \in S : TRUE

\* line 93: the associations the tracker holds after the add pass
FetchAssociations ==
    /\ pc = "fetch_associations"
    /\ prune_todo' = tracker.pts
    /\ pc' = IF prune_todo' = {} THEN "fetch_templates" ELSE "prune"
    /\ UNCHANGED <<to_start, thread_q, tpc, template_providers, existing_provider_templates,
                   add_todo, tprune_todo, tracker, env, hist>>
    /\ MainVarsUnchanged

\* ToCleanUp without the test that the provider did not report the template
ToCleanUpIgnoresReport(key, template_name, mapping) ==
    /\ key \notin unresponsive_providers
    /\ key \in all_providers

\* ToCleanUp without the test of unresponsive_providers
ToCleanUpIgnoresUnresponsive(key, template_name, mapping) ==
    /\ key \notin Range(mapping[template_name])
    /\ key \in all_providers

\* ToCleanUp without the test of all_providers
ToCleanUpIgnoresQueried(key, template_name, mapping) ==
    /\ key \notin Range(mapping[template_name])
    /\ key \notin unresponsive_providers

\* lines 95-96: the association is to be cleaned up
ToCleanUp(key, template_name, mapping) ==
    /\ key \notin Range(mapping[template_name])
    /\ key \notin unresponsive_providers
    /\ key \in all_providers

\* lines 93-101: one iteration of the prune-association loop
PruneAssociation(pt) ==
    /\ pc = "prune"
    /\ prune_todo # {}
    /\ pt = FirstOf(prune_todo)
    /\ prune_todo' = prune_todo \ {pt}
    /\ template_providers' = DefaultGet(template_providers, pt.template)
    /\ IF ToCleanUp(pt.provider, pt.template, template_providers')
       THEN LET called == [hist.calls EXCEPT !.deletes = @ \cup {pt}]
            IN  \/ /\ tracker' = DeleteProviderTemplate(tracker, pt.template, pt.provider)
                   /\ hist' = [hist EXCEPT !.calls = called]
                   /\ pc' = IF prune_todo' = {} THEN "fetch_templates" ELSE "prune"
                \/ /\ hist.calls.failed < MaxFail
                   /\ hist' = [hist EXCEPT !.calls = [called EXCEPT !.failed = @ + 1]]
                   /\ pc' = "crashed"
                   /\ UNCHANGED tracker
       ELSE /\ pc' = IF prune_todo' = {} THEN "fetch_templates" ELSE "prune"
            /\ UNCHANGED <<tracker, hist>>
    /\ UNCHANGED <<to_start, thread_q, tpc, existing_provider_templates, add_todo,
                   tprune_todo, env>>
    /\ MainVarsUnchanged

\* line 104: the template records, each with its providers
FetchTemplates ==
    /\ pc = "fetch_templates"
    /\ tprune_todo' = { [name |-> t, providers |-> ProvidersOf(tracker, t)] :
                        t \in tracker.templates }
    /\ pc' = IF tprune_todo' = {} THEN "done" ELSE "prune_templates"
    /\ UNCHANGED <<to_start, thread_q, tpc, template_providers, existing_provider_templates,
                   add_todo, prune_todo, tracker, env, hist>>
    /\ MainVarsUnchanged

\* the test of line 105 inverted
HasProviders(template) == template.providers # {}

\* line 105: not template['providers']
HasNoProviders(template) == template.providers = {}

\* lines 104-107: one iteration of the prune-template loop
PruneTemplate(template) ==
    /\ pc = "prune_templates"
    /\ tprune_todo # {}
    /\ template = FirstOf(tprune_todo)
    /\ tprune_todo' = tprune_todo \ {template}
    /\ IF HasNoProviders(template)
       THEN LET called == [hist.calls EXCEPT !.tdeletes = @ \cup {template.name}]
            IN  \/ /\ tracker' = DeleteTemplate(tracker, template.name)
                   /\ hist' = [hist EXCEPT !.calls = called]
                   /\ pc' = IF tprune_todo' = {} THEN "done" ELSE "prune_templates"
                \/ /\ hist.calls.failed < MaxFail
                   /\ hist' = [hist EXCEPT !.calls = [called EXCEPT !.failed = @ + 1]]
                   /\ pc' = "crashed"
                   /\ UNCHANGED tracker
       ELSE /\ pc' = IF tprune_todo' = {} THEN "done" ELSE "prune_templates"
            /\ UNCHANGED <<tracker, hist>>
    /\ UNCHANGED <<to_start, thread_q, tpc, template_providers, existing_provider_templates,
                   add_todo, prune_todo, env>>
    /\ MainVarsUnchanged

\* main() is run again (lines 164-166), against providers that answer as before
RunAgain ==
    /\ pc \in {"done", "crashed"}
    /\ run < MaxRuns
    /\ run' = run + 1
    /\ pc' = "start"
    /\ all_providers' = AllProviders(selected_provider)
    /\ to_start' = all_providers'
    /\ thread_q' = {}
    /\ tpc' = [p \in Providers |-> "idle"]
    /\ thread_lock' = None
    /\ templates' = [p \in Providers |-> [src |-> "none", items |-> <<>>]]
    /\ template_providers' = <<>>
    /\ unresponsive_providers' = {}
    /\ existing_provider_templates' = {}
    /\ add_todo' = {}
    /\ prune_todo' = {}
    /\ tprune_todo' = {}
    /\ hist' = NewHist(tracker.pts, hist.failed_before \/ hist.calls.failed > 0)
    /\ UNCHANGED <<cfme_type, selected_provider, tracker, env, perflogVars, markerVars>>

(***************************************************************************)
(* utils/log.py: class Perflog, lines 147-193.                             *)
(***************************************************************************)
MaxClock == 3    \* largest value time() returns

\* the event names passed to start() and stop()
Events == {"e1", "e2"}

\* what a Perflog call returned: Python's None is none = TRUE
NoCall == [op |-> "none", event |-> "", none |-> TRUE, seconds |-> 0, log |-> ""]

\* time(): a value not before the one it returned last
Time == clock..MaxClock

\* d[k] = v
SetItem(d, k, v) == [x \in DOMAIN d \cup {k} |-> IF x = k THEN v ELSE d[x]]

\* d.pop(k): what is left of d
Pop(d, k) == [x \in DOMAIN d \ {k} |-> d[x]]

\* lines 167-177: Perflog.start
start(event_name) ==
    /\ \E now \in Time :
        /\ tracking_events' = SetItem(tracking_events, event_name, now)
        /\ last_start' = SetItem(last_start, event_name, now)
        /\ clock' = now
    /\ returned' = [op |-> "start", event |-> event_name, none |-> TRUE, seconds |-> 0,
                    log |-> IF event_name \in DOMAIN tracking_events
                            THEN "warning" ELSE "debug"]
    /\ UNCHANGED <<syncVars, markerVars>>

\* lines 179-193: Perflog.stop
stop(event_name) ==
    /\ IF event_name \in DOMAIN tracking_events
       THEN \E now \in Time :
               /\ clock' = now
               /\ returned' = [op |-> "stop", event |-> event_name, none |-> FALSE,
                               seconds |-> now - tracking_events[event_name],
                               log |-> "info"]
               /\ tracking_events' = Pop(tracking_events, event_name)
       ELSE /\ returned' = [op |-> "stop", event |-> event_name, none |-> TRUE,
                            seconds |-> 0, log |-> "error"]
            /\ UNCHANGED <<tracking_events, clock>>
    /\ UNCHANGED <<last_start, syncVars, markerVars>>

(***************************************************************************)
(* markers/uses.py.                                                        *)
(***************************************************************************)
MaxRequested == 3    \* most fixtures a test requests by name

uses_event_listener == <<"u", "s", "e", "s", "_", "e", "v", "e", "n", "t", "_", "l", "i", "s", "t", "e", "n", "e", "r">>
uses_pxe == <<"u", "s", "e", "s", "_", "p", "x", "e">>
uses_providers == <<"u", "s", "e", "s", "_", "p", "r", "o", "v", "i", "d", "e", "r", "s">>
is_appliance == <<"i", "s", "_", "a", "p", "p", "l", "i", "a", "n", "c", "e">>
uses_db == <<"u", "s", "e", "s", "_", "d", "b">>
uses_ssh == <<"u", "s", "e", "s", "_", "s", "s", "h">>
uses_cloud_providers == <<"u", "s", "e", "s", "_", "c", "l", "o", "u", "d", "_", "p", "r", "o", "v", "i", "d", "e", "r", "s">>
uses_infra_providers == <<"u", "s", "e", "s", "_", "i", "n", "f", "r", "a", "_", "p", "r", "o", "v", "i", "d", "e", "r", "s">>

\* lines 38-77: the decorated functions of the module in the order they are executed, each
\* with its arguments and whether it has a docstring
FixtureDefs ==
    << [name |-> uses_event_listener,  args |-> {},               doc |-> FALSE],
       [name |-> uses_pxe,             args |-> {},               doc |-> FALSE],
       [name |-> uses_providers,       args |-> {},               doc |-> FALSE],
       [name |-> is_appliance,         args |-> {},               doc |-> FALSE],
       [name |-> uses_db,              args |-> {is_appliance},   doc |-> TRUE],
       [name |-> uses_ssh,             args |-> {is_appliance},   doc |-> TRUE],
       [name |-> uses_cloud_providers, args |-> {uses_providers}, doc |-> TRUE],
       [name |-> uses_infra_providers, args |-> {uses_providers}, doc |-> TRUE] >>

\* a fixture of another module and a mark a test carries itself
tmpdir == <<"t", "m", "p", "d", "i", "r">>
smoke == <<"s", "m", "o", "k", "e">>

\* no item has been collected yet
NoItem ==
    [collected |-> FALSE, has_fixturenames |-> FALSE, requested |-> {}, fixturenames |-> {},
     own_markers |-> {}, markers |-> {}, extra_keyword_matches |-> {}]

\* the fixture names a test can request
Requestable == { FixtureDefs[i].name : i \in DOMAIN FixtureDefs } \cup {tmpdir}

\* the items pytest hands to the hook: doctest-like items without fixturenames, and test
\* functions that request up to MaxRequested fixtures
Items ==
    { [has_fixturenames |-> FALSE, requested |-> {}, own_markers |-> m] :
          m \in {{}, {smoke}} }
    \cup { [has_fixturenames |-> TRUE, requested |-> r, own_markers |-> m] :
              r \in { x \in SUBSET Requestable : Cardinality(x) <= MaxRequested },
              m \in {{}, {smoke}} }

\* item.fixturenames as pytest computes it: the requested fixtures and, transitively, the
\* fixtures named by their arguments
RECURSIVE Closure(_)
Closure(names) ==
    LET deps == UNION { fixtures[n].args : n \in names \cap DOMAIN fixtures }
    IN  IF deps \subseteq names THEN names ELSE Closure(names \cup deps)

\* lines 31-35: _markfixture applied to the next decorated function of the module
markfixture(func) ==
    /\ loaded < Len(FixtureDefs)
    /\ func = FixtureDefs[loaded + 1]
    /\ USES_FIXTURENAMES' = USES_FIXTURENAMES \cup {func.name}
    /\ fixtures' = SetItem(fixtures, func.name,
                           [args |-> func.args, scope |-> "session",
                            doc |-> IF func.doc THEN "given" ELSE "generated"])
    /\ loaded' = loaded + 1
    /\ UNCHANGED <<item, syncVars, perflogVars>>

\* the intersection restricted to the names that begin with 'uses_'
MarkFixturesUsesOnly(fixturenames) ==
    { n \in USES_FIXTURENAMES \cap fixturenames : SubSeq(n, 1, 5) = <<"u", "s", "e", "s", "_">> }

\* line 91: USES_FIXTURENAMES.intersection(item.fixturenames)
MarkFixtures(fixturenames) == USES_FIXTURENAMES \cap fixturenames

\* lines 83-98: the hook, called for an item once the module is loaded
pytest_itemcollected(it) ==
    /\ loaded = Len(FixtureDefs)
    /\ item' =
          IF ~it.has_fixturenames
          THEN [collected |-> TRUE, has_fixturenames |-> FALSE, requested |-> it.requested,
                fixturenames |-> {}, own_markers |-> it.own_markers,
                markers |-> it.own_markers, extra_keyword_matches |-> {}]
          ELSE LET mark_fixtures == MarkFixtures(Closure(it.requested))
               IN  [collected |-> TRUE, has_fixturenames |-> TRUE,
                    requested |-> it.requested, fixturenames |-> Closure(it.requested),
                    own_markers |-> it.own_markers,
                    markers |-> it.own_markers \cup mark_fixtures,
                    extra_keyword_matches |-> mark_fixtures]
    /\ UNCHANGED <<USES_FIXTURENAMES, fixtures, loaded, syncVars, perflogVars>>

Init ==
    \E cfg \in Configs, pts \in SUBSET TrackedPairs :
        /\ cfme_type = [p \in Providers |-> IF p = ProvB THEN cfg.typeB ELSE "rhevm"]
        /\ selected_provider = cfg.selected
        /\ all_providers = AllProviders(cfg.selected)
        /\ to_start = all_providers
        /\ thread_q = {}
        /\ pc = "start"
        /\ tpc = [p \in Providers |-> "idle"]
        /\ thread_lock = None
        /\ templates = [p \in Providers |-> [src |-> "none", items |-> <<>>]]
        /\ template_providers = <<>>
        /\ unresponsive_providers = {}
        /\ existing_provider_templates = {}
        /\ add_todo = {}
        /\ prune_todo = {}
        /\ tprune_todo = {}
        /\ tracker = TrackerOf(pts)
        /\ env = [p \in Providers |-> Unasked]
        /\ run = 1
        /\ hist = NewHist(pts, FALSE)
        /\ tracking_events = <<>>
        /\ clock = 0
        /\ returned = NoCall
        /\ last_start = <<>>
        /\ USES_FIXTURENAMES = {}
        /\ fixtures = <<>>
        /\ loaded = 0
        /\ item = NoItem

Collector(p) ==
    \/ AcquireForMgmt(p)
    \/ GetMgmt(p)
    \/ ListTemplates(p)
    \/ AcquireForRecord(p)
    \/ RecordTemplates(p)
    \/ AcquireForUnresponsive(p)
    \/ MarkUnresponsive(p)

Next ==
    \/ \E p \in Providers : StartCollector(p)
    \/ \E p \in Providers : Collector(p)
    \/ JoinCollectors
    \/ FetchExisting
    \/ \E t \in add_todo : AddTemplate(t)
    \/ FetchAssociations
    \/ \E pt \in prune_todo : PruneAssociation(pt)
    \/ FetchTemplates
    \/ \E template \in tprune_todo : PruneTemplate(template)

\* one run of main()
Spec == Init /\ [][Next]_vars

\* MaxRuns runs of main() in a row against the same tracker
InitRerun == Init /\ tracker.pts \subseteq RerunPairs
NextRerun == Next \/ RunAgain
SpecRerun == InitRerun /\ [][NextRerun]_vars

\* the collection phase alone (lines 29-40 and the collector threads), with the threads
\* of the process scheduled fairly: a thread that can take a step of its own is not
\* passed over forever
InitCollect == Init /\ tracker.pts = {}
NextCollect ==
    \/ \E p \in Providers : StartCollector(p)
    \/ \E p \in Providers : Collector(p)
    \/ JoinCollectors
SchedulingFair ==
    /\ WF_vars(\E p \in Providers : StartCollector(p))
    /\ WF_vars(JoinCollectors)
    /\ \A p \in Providers :
          /\ WF_vars(AcquireForMgmt(p))
          /\ WF_vars(AcquireForRecord(p))
          /\ WF_vars(RecordTemplates(p))
          /\ WF_vars(AcquireForUnresponsive(p))
          /\ WF_vars(MarkUnresponsive(p))
SpecCollect == InitCollect /\ [][NextCollect]_vars /\ SchedulingFair

\* the sync script is not run: one configuration, an empty tracker
SyncIdle == selected_provider = None /\ cfme_type[ProvB] = "ec2" /\ tracker.pts = {}

\* any sequence of start and stop calls on the module's perflog object
InitPerflog == Init /\ SyncIdle
NextPerflog ==
    \/ \E event_name \in Events : start(event_name)
    \/ \E event_name \in Events : stop(event_name)
SpecPerflog == InitPerflog /\ [][NextPerflog]_vars

\* markers/uses.py is imported, then pytest collects items
InitMarkers == Init /\ SyncIdle
NextMarkers ==
    \/ \E func \in Range(FixtureDefs) : markfixture(func)
    \/ \E it \in Items : pytest_itemcollected(it)
SpecMarkers == InitMarkers /\ [][NextMarkers]_vars

(***************************************************************************)
(* Vocabulary of the properties.                                           *)
(***************************************************************************)
AllNames == {TplT1, TplT2, TplDb, TplSprout, TplNonAsc, TplNoDate}

\* the name ends in 'db', 'dB', 'Db' or 'DB'
EndsInDb(name) ==
    /\ Len(name) >= 2
    /\ name[Len(name) - 1] \in {"d", "D"}
    /\ name[Len(name)] \in {"b", "B"}

\* the collector threads have been joined
Joined == pc \notin {"start", "join"}

\* provider p reported template t in this run: the collector recorded p under t
Reported(t, p) == t \in DOMAIN template_providers /\ p \in Range(template_providers[t])

\* p was queried, answered the ping (or has no address to ping) and its collector did not raise
Live(p) ==
    /\ p \in all_providers
    /\ p \in thread_q
    /\ p \notin unresponsive_providers

\* p's collector raised: in get_mgmt, in the listing call, or while recording
Raised(p) ==
    \/ env[p].mgmt = "raise"
    \/ env[p].listing = "raise"
    \/ /\ tpc[p] \in {"except", "mark_unresponsive", "done"}
       /\ \E i \in DOMAIN templates[p].items : StrRaises(templates[p].items[i])

\* t is a template the add pass tracks
Trackable(t) == ~EndsInDb(t) /\ GroupName(t) \notin ExcludedGroups /\ ~TemplateRaises(t)

NoCallFailed == hist.calls.failed = 0

Marked == BagToSet(hist.calls.marks)

StartProviders(t) == { pt.provider : pt \in { x \in hist.start_pts : x.template = t } }

(***************************************************************************)
(* C1.  After a complete run in which no tracker call failed, for every    *)
(* live queried provider P and every trackable template T, the association *)
(* of T with P is in the tracker if and only if P reported T in this run,  *)
(* whatever the tracker held before.                                       *)
(***************************************************************************)
C1_TrackedIffReported ==
    (pc = "done" /\ NoCallFailed) =>
        \A p \in Providers, t \in AllNames :
            (Live(p) /\ Trackable(t)) => (Pair(t, p) \in tracker.pts <=> Reported(t, p))

\* a finished run that created one association and removed another
C1_Witness ==
    /\ pc = "done" /\ NoCallFailed
    /\ \E p \in Providers, t \in AllNames :
          Live(p) /\ Trackable(t) /\ Reported(t, p)
          /\ Pair(t, p) \notin hist.start_pts /\ Pair(t, p) \in tracker.pts
    /\ \E p \in Providers, t \in AllNames :
          Live(p) /\ Trackable(t) /\ ~Reported(t, p)
          /\ Pair(t, p) \in hist.start_pts /\ Pair(t, p) \notin tracker.pts

(***************************************************************************)
(* C2.  Outage safety: no delete_provider_template call is issued for an   *)
(* association of a provider in unresponsive_providers; and in the example *)
(* (A live reporting T1, B unresponsive, tracker holding T1-A, T1-B, T2-B) *)
(* the run deletes nothing at all.                                         *)
(***************************************************************************)
ExamplePairs == { Pair(TplT1, ProvA), Pair(TplT1, ProvB), Pair(TplT2, ProvB) }

ExampleRun ==
    /\ Joined
    /\ hist.start_pts = ExamplePairs
    /\ Live(ProvA) /\ ProvB \in unresponsive_providers
    /\ \A t \in AllNames : Reported(t, ProvA) <=> t = TplT1

C2_OutageSafety ==
    /\ \A pt \in hist.calls.deletes : pt.provider \notin unresponsive_providers
    /\ ExampleRun => (hist.calls.deletes = {} /\ hist.calls.tdeletes = {})

\* the example run has finished, with all three associations still in the tracker
C2_Witness == ExampleRun /\ pc = "done" /\ tracker.pts = ExamplePairs

(***************************************************************************)
(* C3.  A provider that failed the ping check is unresponsive for the run: *)
(* the prune-association pass deletes none of its associations.            *)
(***************************************************************************)
C3_PingFailedNotPruned ==
    \A pt \in hist.calls.deletes : env[pt.provider].ping # "down"

(***************************************************************************)
(* C4.  The prune-association pass deletes an association (T, P) only if P *)
(* is in the queried provider set, P did not report T in this run and P    *)
(* was not flagged unresponsive.                                           *)
(***************************************************************************)
C4_PruneOnlyIf ==
    \A pt \in hist.calls.deletes :
        /\ pt.provider \in all_providers
        /\ ~Reported(pt.template, pt.provider)
        /\ pt.provider \notin unresponsive_providers

\* a finished run that deleted an association and kept that of a provider it did not query
C4_Witness ==
    /\ pc = "done"
    /\ hist.calls.deletes # {}
    /\ \E pt \in hist.start_pts : pt.provider \notin all_providers /\ pt \in tracker.pts

(***************************************************************************)
(* C5.  Add-pass idempotence: a pair whose id is in the association list   *)
(* fetched before the add pass is never passed to mark_provider_template,  *)
(* and a run that follows runs without a failed tracker call, against      *)
(* providers that report the same pairs, creates no association.           *)
(***************************************************************************)
C5_AddIdempotent ==
    /\ \A pt \in Marked : FormatId(pt.template, pt.provider) \notin existing_provider_templates
    /\ (run > 1 /\ ~hist.failed_before) => Marked = {}

\* a second run has finished and skipped a pair that the first run created
C5_Witness ==
    /\ run = 2 /\ pc = "done" /\ ~hist.failed_before
    /\ Reported(TplT1, ProvB)
    /\ FormatId(TplT1, ProvB) \in existing_provider_templates

(***************************************************************************)
(* C6.  Cleanup correctness, as stated: a template whose associations were *)
(* all with queried providers that are responsive in this run and no       *)
(* longer report it has lost every association and its template record by  *)
(* the end of the run.                                                     *)
(***************************************************************************)
Abandoned(t) ==
    /\ StartProviders(t) # {}
    /\ \A p \in StartProviders(t) : Live(p) /\ ~Reported(t, p)

Moved(t) ==
    /\ StartProviders(t) = {ProvA}
    /\ Live(ProvA) /\ ~Reported(t, ProvA)
    /\ Reported(t, ProvB)

PassOrderStep ==
    run' = run =>
        /\ hist'.calls.marks # hist.calls.marks =>
              (hist.calls.deletes = {} /\ hist.calls.tdeletes = {})
        /\ hist'.calls.deletes # hist.calls.deletes => hist.calls.tdeletes = {}

MovedKept ==
    (pc = "done" /\ NoCallFailed) =>
        \A t \in AllNames :
            (Moved(t) /\ Trackable(t)) =>
                (t \notin hist.calls.tdeletes /\ ProvidersOf(tracker, t) = {ProvB})

C8_Original == \A k \in DOMAIN template_providers : ~EndsInDb(k)

(***************************************************************************)
(* C8, amended.  The collector never records a provider under a name that  *)
(* ends in 'db': a key of that form appears in the mapping only once the   *)
(* prune-association pass has looked it up, with an empty provider list,   *)
(* and no create call is made for such a template.                         *)
(***************************************************************************)
C8_DbNeverRecorded ==
    /\ \A k \in DOMAIN template_providers :
          EndsInDb(k) =>
              /\ template_providers[k] = <<>>
              /\ pc \in {"prune", "fetch_templates", "prune_templates", "done", "crashed"}
    /\ \A pt \in Marked : ~EndsInDb(pt.template)

\* a collector has recorded a listing that contains a 'db' name
C8_Witness ==
    \E p \in Providers :
        /\ tpc[p] = "done" /\ p \notin unresponsive_providers
        /\ TplDb \in Range(templates[p].items)
        /\ Reported(TplT1, p)

(***************************************************************************)
(* C9.  As stated: for an observed template of an excluded group the run   *)
(* issues no tracker operation at all: no create, no association delete,   *)
(* no template delete.                                                     *)
(***************************************************************************)
Observed(t) == \E p \in Providers : Reported(t, p)

C9_Original ==
    \A t \in AllNames :
        (Observed(t) /\ GroupName(t) \in ExcludedGroups) =>
            /\ \A pt \in Marked : pt.template # t
            /\ \A pt \in hist.calls.deletes : pt.template # t
            /\ t \notin hist.calls.tdeletes

(***************************************************************************)
(* C9, amended.  For an observed template of an excluded group the add     *)
(* pass issues no create call (no group, template or association is        *)
(* created); the prune passes treat it like any other template: they       *)
(* delete only associations with providers that did not report it, and the *)
(* template record only when no association is left.                       *)
(***************************************************************************)
C9_ExcludedNotAdded ==
    \A t \in AllNames :
        (Observed(t) /\ GroupName(t) \in ExcludedGroups) =>
            /\ \A pt \in Marked : pt.template # t
            /\ \A pt \in hist.calls.deletes : pt.template = t => ~Reported(t, pt.provider)
            /\ t \in hist.calls.tdeletes => ProvidersOf(tracker, t) = {}
            /\ \A p \in Providers : Pair(t, p) \in tracker.pts => Pair(t, p) \in hist.start_pts

\* a finished run in which B reported the sprout template and its association with A was pruned
C9_Witness ==
    /\ pc = "done"
    /\ Reported(TplSprout, ProvB)
    /\ Pair(TplSprout, ProvA) \in hist.calls.deletes

(***************************************************************************)
(* C10.  Collection-failure isolation: a provider whose collector raised   *)
(* (in get_mgmt, in the listing call or while recording) is in             *)
(* unresponsive_providers once the threads are joined; the entries of      *)
(* every provider in the mapping are then exactly those its own listing    *)
(* yields, whatever happened to the other collectors; and while main()     *)
(* waits in the join loop some collector can take a step, or all are done  *)
(* and main() goes on to the reconciliation passes.                        *)
(***************************************************************************)
\* the names of a listing that the loop of lines 143-147 appends, in order
RECURSIVE Appended(_)
Appended(ts) ==
    IF ts = <<>> \/ StrRaises(Head(ts)) THEN <<>>
    ELSE IF EndsInDb(Head(ts)) THEN Appended(Tail(ts))
    ELSE <<Head(ts)>> \o Appended(Tail(ts))

Count(x, seq) == Cardinality({ i \in DOMAIN seq : seq[i] = x })

EntriesOf(p, t) ==
    IF t \in DOMAIN template_providers THEN Count(p, template_providers[t]) ELSE 0

C10_FailureIsolation ==
    /\ Joined => \A p \in thread_q : Raised(p) => p \in unresponsive_providers
    /\ pc = "fetch_existing" =>
          \A p \in Providers, t \in AllNames :
              EntriesOf(p, t) = Count(t, Appended(templates[p].items))
    /\ pc = "join" =>
          IF \A p \in thread_q : tpc[p] = "done"
          THEN ENABLED JoinCollectors
          ELSE ENABLED (\E p \in thread_q : Collector(p))

\* a finished run in which one collector raised while recording and the other provider's
\* templates were recorded
C10_Witness ==
    /\ pc = "done"
    /\ \E p, q \in Providers :
          /\ p # q
          /\ \E i \in DOMAIN templates[p].items : StrRaises(templates[p].items[i])
          /\ Raised(p) /\ p \in unresponsive_providers
          /\ Live(q) /\ \E t \in AllNames : Reported(t, q)

(***************************************************************************)
(* C11.  A mark_provider_template call that fails in the add pass is       *)
(* caught: once the add pass is over, a create call has been issued for    *)
(* every observed pair of a trackable template whose id was not in the     *)
(* fetched list, whichever calls failed; the run never ends in the add     *)
(* pass; and a run that ends normally has pruned every association of a    *)
(* live provider that no longer reports the template and left no template  *)
(* record without providers.                                               *)
(***************************************************************************)
AddPassOver ==
    pc \in {"fetch_associations", "prune", "fetch_templates", "prune_templates",
            "done", "crashed"}

C11_CreateFailureCaught ==
    /\ AddPassOver =>
          \A t \in AllNames, p \in Providers :
              (Reported(t, p) /\ Trackable(t)
                 /\ FormatId(t, p) \notin existing_provider_templates)
                  => Pair(t, p) \in Marked
    /\ pc = "crashed" => (hist.calls.deletes # {} \/ hist.calls.tdeletes # {})
    /\ pc = "done" =>
          /\ \A pt \in hist.start_pts :
                (Live(pt.provider) /\ ~Reported(pt.template, pt.provider))
                    => pt \in hist.calls.deletes
          /\ \A t \in tracker.templates : ProvidersOf(tracker, t) # {}

\* a finished run in which one create call failed, another succeeded and the prune passes
\* deleted an association and a template record
C11_Witness ==
    /\ pc = "done"
    /\ hist.calls.failed = 1
    /\ \E pt \in Marked : pt \notin tracker.pts
    /\ \E pt \in Marked : pt \in tracker.pts
    /\ hist.calls.deletes # {}
    /\ hist.calls.tdeletes # {}

(***************************************************************************)
(* C12.  A delete call that fails in a prune pass is caught and main()     *)
(* completes normally: no run ends with the exception of a tracker call    *)
(* leaving main().                                                         *)
(***************************************************************************)
C12_DeleteFailureCaught == pc # "crashed"

(***************************************************************************)
(* C13.  An observed template whose structured identifier cannot be built  *)
(* is skipped: no create call is made for any of its providers; the other  *)
(* observed templates are still processed (with no failing tracker call,   *)
(* every observed pair of a trackable template is in the tracker once the  *)
(* add pass is over); and the run is not aborted by it: it ends early only *)
(* with a failed tracker call.                                             *)
(***************************************************************************)
UnparsableObserved == \E t \in AllNames : Observed(t) /\ TemplateRaises(t)

C13_ParseFailureSkipped ==
    /\ \A pt \in Marked : ~TemplateRaises(pt.template)
    /\ (AddPassOver /\ UnparsableObserved /\ NoCallFailed) =>
          \A t \in AllNames, p \in Providers :
              (Reported(t, p) /\ Trackable(t)) => Pair(t, p) \in tracker.pts
    /\ (pc = "crashed" /\ UnparsableObserved) => hist.calls.failed > 0

\* a finished run in which B reported a name that cannot be parsed and a trackable one, and
\* the trackable one was created
C13_Witness ==
    /\ pc = "done"
    /\ Reported(TplNoDate, ProvB)
    /\ Reported(TplT1, ProvB)
    /\ Pair(TplT1, ProvB) \in Marked
    /\ Pair(TplT1, ProvB) \in tracker.pts

(***************************************************************************)
(* C14.  The templates a collector records come from the listing call of   *)
(* the provider's type: get_all_images for 'ec2', get_private_images for   *)
(* 'gce', list_template() for every other type.                            *)
(***************************************************************************)
ListingStrategy(type) ==
    IF type = "ec2" THEN "get_all_images"
    ELSE IF type = "gce" THEN "get_private_images"
    ELSE "list_template"

C14_ListingByType ==
    \A p \in Providers :
        tpc[p] \in {"lock_record", "record", "done"} /\ templates[p].src # "none"
            => templates[p].src = ListingStrategy(cfme_type[p])

(***************************************************************************)
(* C15.  Perflog.stop(event) returns the time passed since start(event)    *)
(* was last called, and None only if start(event) was never called, after  *)
(* any sequence of start and stop calls.                                   *)
(***************************************************************************)
C15_StopReturnsElapsed ==
    returned.op = "stop" =>
        IF returned.event \in DOMAIN last_start
        THEN ~returned.none /\ returned.seconds = clock - last_start[returned.event]
        ELSE returned.none

(***************************************************************************)
(* C16.  Once the markers module is loaded, every name that _markfixture   *)
(* registered in USES_FIXTURENAMES begins with 'uses_', and 'is_appliance' *)
(* is neither in that set nor a fixture.                                   *)
(***************************************************************************)
StartsWith(name, prefix) ==
    /\ Len(name) >= Len(prefix)
    /\ \A i \in DOMAIN prefix : name[i] = prefix[i]

ModuleLoaded == loaded = Len(FixtureDefs)

C16_AllUsesPrefix ==
    ModuleLoaded =>
        /\ \A n \in USES_FIXTURENAMES : StartsWith(n, <<"u", "s", "e", "s", "_">>)
        /\ is_appliance \notin USES_FIXTURENAMES
        /\ is_appliance \notin DOMAIN fixtures

(***************************************************************************)
(* C17.  pytest_itemcollected adds to a collected item exactly the names   *)
(* of USES_FIXTURENAMES that are in the item's fixturenames, each as a     *)
(* marker and as an extra keyword and nothing else; a test that requests   *)
(* uses_db or uses_ssh has is_appliance in its fixture closure and is      *)
(* marked is_appliance as well; an item without fixturenames is left as it *)
(* was.                                                                    *)
(***************************************************************************)
C17_MarksFromFixtures ==
    item.collected =>
        IF item.has_fixturenames
        THEN LET added == { n \in item.fixturenames : n \in USES_FIXTURENAMES }
             IN  /\ item.markers = item.own_markers \cup added
                 /\ item.extra_keyword_matches = added
                 /\ item.requested \subseteq item.fixturenames
                 /\ (uses_db \in item.requested \/ uses_ssh \in item.requested) =>
                       /\ is_appliance \in item.fixturenames
                       /\ is_appliance \in item.markers
                       /\ is_appliance \in item.extra_keyword_matches
        ELSE item.markers = item.own_markers /\ item.extra_keyword_matches = {}

\* a collected test that requests uses_db and not is_appliance, and carries both marks
C17_Witness ==
    /\ item.collected
    /\ uses_db \in item.requested
    /\ is_appliance \notin item.requested
    /\ {uses_db, is_appliance} \subseteq item.markers
    /\ tmpdir \in item.fixturenames

(***************************************************************************)
(* C18.  Lock discipline of the collection phase, under every interleaving *)
(* of the collector threads: a step that changes the shared mapping or the *)
(* unresponsive set is taken by the thread that holds thread_lock; the     *)
(* threads inside a with-block are at most one, the holder; and a thread   *)
(* whose listing call is in progress does not hold the lock.               *)
(***************************************************************************)
InWithBlock == { p \in Providers : tpc[p] \in {"get_mgmt", "record", "mark_unresponsive"} }

HoldsLock(p) == thread_lock # None /\ thread_lock = p

LockHeldByOne ==
    /\ Cardinality(InWithBlock) <= 1
    /\ \A p \in Providers : p \in InWithBlock <=> HoldsLock(p)
    /\ \A p \in Providers : tpc[p] = "listing" => ~HoldsLock(p)

WriteUnderLock ==
    (~Joined /\ (template_providers' # template_providers
                 \/ unresponsive_providers' # unresponsive_providers))
        => /\ thread_lock # None
           /\ tpc[thread_lock] \in {"record", "mark_unresponsive"}
           /\ \A p \in Providers : tpc'[p] # tpc[p] => HoldsLock(p)

C18_LockDiscipline == []LockHeldByOne /\ [][WriteUnderLock]_vars

\* the listing calls of both providers are in progress at the same time
C18_Witness ==
    /\ tpc[ProvA] = "listing"
    /\ tpc[ProvB] = "listing"
    /\ thread_lock = None

(***************************************************************************)
(* C19.  Join barrier: before every started collector thread has           *)
(* terminated main() has issued no tracker call and fetched nothing from   *)
(* the tracker; once main() is past the join loop every collector is done, *)
(* and the observed (template, provider) pairs of the mapping and the      *)
(* unresponsive set stay as they are through the three passes.             *)
(***************************************************************************)
ObservedPairs ==
    UNION { { Pair(t, p) : p \in Range(template_providers[t]) } :
            t \in DOMAIN template_providers }

CollectorsDone == \A p \in Providers : tpc[p] \in {"idle", "done"}

JoinedAfterCollectors ==
    /\ Joined => (CollectorsDone /\ thread_lock = None)
    /\ ~Joined =>
          /\ hist.calls = NoCalls
          /\ tracker = TrackerOf(hist.start_pts)
          /\ existing_provider_templates = {}
          /\ add_todo = {} /\ prune_todo = {} /\ tprune_todo = {}

StableDuringPasses ==
    (Joined /\ run' = run) =>
        /\ ObservedPairs' = ObservedPairs
        /\ unresponsive_providers' = unresponsive_providers

C19_JoinBarrier == []JoinedAfterCollectors /\ [][StableDuringPasses]_vars

\* a finished run with two collectors, one that reported and one that raised, in which the
\* passes created and deleted associations
C19_Witness ==
    /\ pc = "done"
    /\ thread_q = {ProvA, ProvB}
    /\ ObservedPairs # {}
    /\ unresponsive_providers # {}
    /\ Marked # {}
    /\ hist.calls.deletes # {}

(***************************************************************************)
(* C20.  When the collectors have been joined, no provider key that is in  *)
(* unresponsive_providers is in the provider list of a template of the     *)
(* shared mapping.                                                         *)
(***************************************************************************)
C20_ReporterXorUnresponsive ==
    Joined => \A p \in unresponsive_providers : \A t \in AllNames : ~Reported(t, p)

(***************************************************************************)
(* C21.  Collection-phase termination: if every get_mgmt call and every    *)
(* listing call returns or raises, then under fair scheduling every        *)
(* started collector thread terminates, thread_lock is released (also      *)
(* when the exception was raised inside a with-block) and the join loop    *)
(* of main() completes.                                                    *)
(***************************************************************************)
\* a get_mgmt or listing call that has been made returns or raises
CallsReturn ==
    \A p \in Providers : WF_vars(GetMgmt(p)) /\ WF_vars(ListTemplates(p))

CollectionOver ==
    /\ pc = "fetch_existing"
    /\ thread_lock = None
    /\ \A p \in thread_q : tpc[p] = "done"

C21_CollectionTerminates == CallsReturn => <>CollectionOver

\* the join loop has completed with two collectors, one of which raised inside the
\* with-block of lines 142-147 and was then recorded as unresponsive
C21_Witness ==
    /\ CollectionOver
    /\ thread_q = {ProvA, ProvB}
    /\ \E p \in thread_q :
          /\ p \in unresponsive_providers
          /\ env[p].listing = "ok"
          /\ \E i \in DOMAIN templates[p].items : StrRaises(templates[p].items[i])

(***************************************************************************)
(* C22.  Within one run the add pass calls mark_provider_template at most  *)
(* once for each (template, provider) pair.                                *)
(***************************************************************************)
C22_MarkedAtMostOnce ==
    \A pt \in Marked : CopiesIn(pt, hist.calls.marks) <= 1

====
